---- MODULE Spec2Model ----
(***************************************************************************)
(* Model of the Cheddar shader module core (src/render/shader/module.rs):  *)
(*   - module resolution: Module::deps / deps_no_cycle / gather            *)
(*   - pipeline lowering: Module::to_glsl_setup and the stage sinks        *)
(***************************************************************************)
EXTENDS Integers, Sequences, FiniteSets, TLC

VARIABLES
  store,    \* the module store: ModuleKey -> loaded module, or not loadable
  root,     \* the key gather is called with (self is store[root])
  pc,       \* "idle" | "deps" | "done" : position of the gather call
  stack,    \* call stack of deps_no_cycle: frames [key, i], i = next import
  parents,  \* the `parents` vector of deps_no_cycle
  deps,     \* the `deps` vector of deps_no_cycle
  result,   \* what gather returned
  folded,   \* the folded module handed to to_glsl_setup
  setup     \* what to_glsl_setup returned

vars == <<store, root, pc, stack, parents, deps, result, folded, setup>>

-----------------------------------------------------------------------------
(* Bounds *)

\* total number of import entries over all the modules of a store
MaxEdges == 4

\* number of fields a struct declares after its first one
MaxExtraFields == 2

-----------------------------------------------------------------------------
(* Module keys and stores *)

KeyOrder == <<"a", "b", "c", "d">>

Keys == {KeyOrder[i] : i \in 1..Len(KeyOrder)}

\* store.get(key) = None
NotLoadable == [loaded |-> FALSE, imports |-> <<>>, glsl |-> <<>>]

\* the external declarations of the module file `k` (opaque to the resolver)
GlslOf(k) ==
  CASE k = "a" -> <<"a.1", "a.2">>
    [] k = "b" -> <<"b.1">>
    [] k = "c" -> <<>>
    [] k = "d" -> <<"d.1", "d.2">>

Loaded(k, imps) == [loaded |-> TRUE, imports |-> imps, glsl |-> GlslOf(k)]

\* the import lists of exactly n entries
ImportLists(n) == [1..n -> Keys]

\* the modules key k can stand for with exactly n import entries
ModulesOf(k, n) ==
  {Loaded(k, imps) : imps \in ImportLists(n)} \cup (IF n = 0 THEN {NotLoadable} ELSE {})

\* the store whose module files are ma, mb, mc and md
StoreOf(ma, mb, mc, md) == [k \in Keys |-> CASE k = "a" -> ma [] k = "b" -> mb [] k = "c" -> mc [] k = "d" -> md]

\* the ways to split at most MaxEdges import entries over the four module files
EdgeSplits == {l \in [1..Len(KeyOrder) -> 0..MaxEdges] : l[1] + l[2] + l[3] + l[4] <= MaxEdges}

-----------------------------------------------------------------------------
(* Helpers of the resolver *)

\* ModuleKey(module_path.path.join(".")) of the i-th import of module k
ImportKey(k, i) == store[k].imports[i]

\* Vec::contains
Contains(v, k) == \E i \in 1..Len(v) : v[i] = k

\* deps.contains(&module_key), always false (a resolver without the seen check)
InDepsNever(k) == FALSE

\* deps.contains(&module_key)
InDeps(k) == Contains(deps, k)

\* parents.contains(&module_key)
InParents(k) == Contains(parents, k)

\* Vec::pop (the popped value is dropped)
Pop(v) == IF Len(v) = 0 THEN v ELSE SubSeq(v, 1, Len(v) - 1)

\* store.get(&module_key)
StoreGet(k) == store[k]

NoResult == [status |-> "none", err |-> <<>>, module |-> <<>>, deps |-> <<>>]

\* a Cycle error that names the importing module first
ErrCycleImporter(k1, k2) ==
  [status |-> "Cycle", err |-> <<stack[Len(stack)].key, k2>>, module |-> <<>>, deps |-> <<>>]

ErrCycle(k1, k2) == [status |-> "Cycle", err |-> <<k1, k2>>, module |-> <<>>, deps |-> <<>>]

\* a LoadError that names the importing module
ErrLoadImporter(k) ==
  [status |-> "LoadError", err |-> <<stack[Len(stack)].key>>, module |-> <<>>, deps |-> <<>>]

ErrLoad(k) == [status |-> "LoadError", err |-> <<k>>, module |-> <<>>, deps |-> <<>>]

\* deps.iter().flat_map(|kd| store.get(kd).unwrap().glsl.clone())
RECURSIVE FlatMapGlsl(_)
FlatMapGlsl(ks) ==
  IF ks = <<>> THEN <<>>
  ELSE StoreGet(Head(ks)).glsl \o FlatMapGlsl(Tail(ks))

\* a fold that puts self's declarations first
FoldModuleRootFirst(ds) ==
  [imports |-> <<>>, glsl |-> StoreGet(root).glsl \o FlatMapGlsl(ds)]

\* the module gather builds: no imports, dependencies' glsl chained with self's
FoldModule(ds) ==
  [imports |-> <<>>, glsl |-> FlatMapGlsl(ds) \o StoreGet(root).glsl]

OkResult(ds) == [status |-> "Ok", err |-> <<>>, module |-> <<FoldModule(ds)>>, deps |-> ds]

-----------------------------------------------------------------------------
(* The resolver as a state machine *)

\* no module folded for the lowering
NoFold == [imports |-> <<>>, glsl |-> <<>>]

\* to_glsl_setup has not returned
NoSetup == [st |-> "none", err |-> "", info |-> <<>>, val |-> <<>>]

Top == stack[Len(stack)]

\* the frame on top is inside its `for module_path in imports` loop
AtImport == pc = "deps" /\ Top.i <= Len(store[Top.key].imports)

\* the imports of the frame on top walked from the last to the first
CurImportBackwards == ImportKey(Top.key, Len(store[Top.key].imports) - Top.i + 1)

\* module_path of the current iteration of `for module_path in imports`
CurImport == ImportKey(Top.key, Top.i)

\* a loop that tests the same import again
AdvanceStays == stack

\* `continue`: the loop of the frame on top goes to its next import
Advance == [stack EXCEPT ![Len(stack)].i = @ + 1]

Init ==
  /\ \E l \in EdgeSplits :
       \E ma \in ModulesOf("a", l[1]), mb \in ModulesOf("b", l[2]),
          mc \in ModulesOf("c", l[3]), md \in ModulesOf("d", l[4]) :
         store = StoreOf(ma, mb, mc, md)
  /\ root \in {k \in Keys : store[k].loaded}
  /\ pc = "idle"
  /\ stack = <<>>
  /\ parents = <<>>
  /\ deps = <<>>
  /\ result = NoResult
  /\ folded = NoFold
  /\ setup = NoSetup

\* gather -> deps -> deps_no_cycle(root): parents.push(key)
GatherCall ==
  /\ pc = "idle"
  /\ pc' = "deps"
  /\ stack' = <<[key |-> root, i |-> 1]>>
  /\ parents' = Append(parents, root)
  /\ UNCHANGED <<store, root, deps, result, folded, setup>>

\* if deps.contains(&module_key) { continue; }
ImportSeen ==
  /\ AtImport
  /\ InDeps(CurImport)
  /\ stack' = Advance
  /\ UNCHANGED <<store, root, pc, parents, deps, result, folded, setup>>

\* an import found on `parents` is skipped like one found in `deps`
ImportCycleSkipped ==
  /\ AtImport
  /\ ~InDeps(CurImport)
  /\ InParents(CurImport)
  /\ stack' = Advance
  /\ UNCHANGED <<store, root, pc, parents, deps, result, folded, setup>>

\* if parents.contains(&module_key) { return Err(Cycle(..)) }, propagated by `?`
ImportCycle ==
  /\ AtImport
  /\ ~InDeps(CurImport)
  /\ InParents(CurImport)
  /\ result' = ErrCycle(CurImport, CurImport)
  /\ pc' = "done"
  /\ UNCHANGED <<store, root, stack, parents, deps, folded, setup>>

\* store.get(&module_key).ok_or_else(|| LoadError(..))?, propagated by `?`
ImportLoadError ==
  /\ AtImport
  /\ ~InDeps(CurImport)
  /\ ~InParents(CurImport)
  /\ ~StoreGet(CurImport).loaded
  /\ result' = ErrLoad(CurImport)
  /\ pc' = "done"
  /\ UNCHANGED <<store, root, stack, parents, deps, folded, setup>>

\* module.borrow().deps_no_cycle(store, &module_key, parents, deps): the callee
\* starts with parents.push(key)
ImportDescend ==
  /\ AtImport
  /\ ~InDeps(CurImport)
  /\ ~InParents(CurImport)
  /\ StoreGet(CurImport).loaded
  /\ stack' = Append(stack, [key |-> CurImport, i |-> 1])
  /\ parents' = Append(parents, CurImport)
  /\ UNCHANGED <<store, root, pc, deps, result, folded, setup>>

\* the caller records the returned child at the front of deps
ChildReturnPrepends ==
  /\ pc = "deps"
  /\ ~AtImport
  /\ Len(stack) > 1
  /\ deps' = <<Top.key>> \o deps
  /\ parents' = Pop(parents)
  /\ stack' = [Pop(stack) EXCEPT ![Len(stack) - 1].i = @ + 1]
  /\ UNCHANGED <<store, root, pc, result, folded, setup>>

\* the caller records the returned child and leaves its key on parents
ChildReturnKeepsParent ==
  /\ pc = "deps"
  /\ ~AtImport
  /\ Len(stack) > 1
  /\ deps' = Append(deps, Top.key)
  /\ stack' = [Pop(stack) EXCEPT ![Len(stack) - 1].i = @ + 1]
  /\ UNCHANGED <<store, root, pc, parents, result, folded, setup>>

\* the callee's loop is over and it returns Ok(()); the caller then runs
\* deps.push(module_key.clone()); parents.pop(); and goes to its next import
ChildReturn ==
  /\ pc = "deps"
  /\ ~AtImport
  /\ Len(stack) > 1
  /\ deps' = Append(deps, Top.key)
  /\ parents' = Pop(parents)
  /\ stack' = [Pop(stack) EXCEPT ![Len(stack) - 1].i = @ + 1]
  /\ UNCHANGED <<store, root, pc, result, folded, setup>>

\* the root's loop is over: deps returns Ok(deps) and gather folds the modules
GatherReturn ==
  /\ pc = "deps"
  /\ ~AtImport
  /\ Len(stack) = 1
  /\ result' = OkResult(deps)
  /\ pc' = "done"
  /\ UNCHANGED <<store, root, stack, parents, deps, folded, setup>>

Next ==
  \/ GatherCall
  \/ ImportSeen
  \/ ImportCycle
  \/ ImportLoadError
  \/ ImportDescend
  \/ ChildReturn
  \/ GatherReturn

Spec == Init /\ [][Next]_vars

\* gather is one sequential call: as long as a step of it can be taken, one is
SpecLive == Init /\ [][Next]_vars /\ WF_vars(Next)

-----------------------------------------------------------------------------
(* The declaration tree handed to the lowering (glsl::syntax) *)

\* Option<ArraySpecifier>: None, ExplicitlySized(IntConst(n)), Unsized, or
\* ExplicitlySized of an expression that is no integer literal
NoArray == [kind |-> "none", size |-> 0]

Sized(n) == [kind |-> "lit", size |-> n]

Unsized == [kind |-> "unsized", size |-> 0]

SizedByExpr == [kind |-> "expr", size |-> 0]

\* TypeSpecifierNonArray variants that are no TypeName and no Struct
Builtins == {"void", "float", "vec2", "vec3", "vec4", "mat4"}

\* TypeSpecifier { ty, array_specifier }; def holds s for TypeSpecifierNonArray::Struct(s)
TypeSpec(t, a) == [ty |-> t, arr |-> a, def |-> <<>>]

IsTypeName(ts) == ts.def = <<>> /\ ts.ty \notin Builtins

\* TypeQualifierSpec::Storage(_) and other qualifiers without arguments
Storage(q) == [q |-> q, ids |-> <<>>]

\* Expr::IntConst(v), and an expression that is no integer literal
IntConst(v) == [lit |-> TRUE, n |-> v]

OtherExpr == [lit |-> FALSE, n |-> 0]

\* LayoutQualifierSpec::Identifier(id, None), Identifier(id, Some(IntConst(v)))
\* and Identifier(id, Some(e)) for another expression e
LayoutId(id) == [id |-> id, val |-> <<>>]

LayoutIdVal(id, v) == [id |-> id, val |-> <<IntConst(v)>>]

LayoutIdExpr(id) == [id |-> id, val |-> <<OtherExpr>>]

\* TypeQualifierSpec::Layout(LayoutQualifier { ids })
Layout(ids) == [q |-> "layout", ids |-> ids]

\* StructFieldSpecifier { qualifier, ty, identifiers }, one identifier
Field(q, t, id) ==
  [qualifier |-> q, ty |-> TypeSpec(t, NoArray), identifiers |-> <<[id |-> id, arr |-> NoArray]>>]

\* StructSpecifier { name, fields }
StructSpec(n, fs) == [name |-> n, fields |-> fs]

\* SingleDeclaration { ty: FullySpecifiedType { qualifier, ty }, name, array_specifier }
SingleDecl(q, ts, n, a) == [qualifier |-> q, ty |-> ts, name |-> n, arr |-> a]

\* ExternalDeclaration::Declaration(Declaration::InitDeclaratorList { head, tail })
InitDeclList(head, tail) == [kind |-> "init", head |-> head, tail |-> tail]

\* `struct N { .. };`
StructDecl(s) ==
  InitDeclList(SingleDecl(<<>>, [ty |-> s.name, arr |-> NoArray, def |-> <<s>>], "", NoArray), <<>>)

\* `uniform T n, tail..;`
UniformDecl(t, n, tail) ==
  InitDeclList(SingleDecl(<<Storage("uniform")>>, TypeSpec(t, NoArray), n, NoArray), tail)

\* ExternalDeclaration::Declaration(Declaration::Block(b))
BlockDecl(n) == [kind |-> "block", name |-> n]

\* FunctionParameterDeclaration::Named(qualifier, { ty, name, array_spec })
NamedParam(q, ts, n) == [named |-> TRUE, qualifier |-> q, ty |-> ts, name |-> n, arr |-> NoArray]

\* FunctionParameterDeclaration::Unnamed(qualifier, ty)
UnnamedParam(q, ts) == [named |-> FALSE, qualifier |-> q, ty |-> ts, name |-> "", arr |-> NoArray]

\* Statement: an expression statement calling fn(args), or a compound statement
CallStmt(fn, args) == [s |-> "call", fn |-> fn, args |-> args, body |-> <<>>]

BlockStmt(body) == [s |-> "block", fn |-> "", args |-> <<>>, body |-> body]

\* FunctionDefinition { prototype: { ty, name, parameters }, statement }
FunctionDef(q, ts, n, ps, body) ==
  [name |-> n, ty |-> [qualifier |-> q, ty |-> ts], parameters |-> ps, statement |-> body]

\* ExternalDeclaration::FunctionDefinition(def)
FnDecl(f) == [kind |-> "fn", def |-> f]

-----------------------------------------------------------------------------
(* Results of the conversion *)

Ok(v) == [st |-> "Ok", err |-> "", info |-> <<>>, val |-> v]

\* Err(GLSLConversionError::e(info..))
Err(e, info) == [st |-> "Err", err |-> e, info |-> info, val |-> <<>>]

\* a panic of the thread running the conversion
Panic(what) == [st |-> "Panic", err |-> what, info |-> <<>>, val |-> <<>>]

IsOk(r) == r.st = "Ok"

\* the elements of s at the positions keep marks, in order
RECURSIVE Pick(_, _)
Pick(s, keep) ==
  IF s = <<>> THEN <<>>
  ELSE (IF Head(keep) THEN <<Head(s)>> ELSE <<>>) \o Pick(Tail(s), Tail(keep))

-----------------------------------------------------------------------------
(* The classifier: Module::uniforms, blocks, functions, structs *)

HasUniform(q) == \E i \in 1..Len(q) : q[i] = Storage("uniform")

\* tail declarators that take the array specifier of the head
UniformsOfDeclHeadArray(d) ==
  IF d.kind = "init" /\ HasUniform(d.head.qualifier)
  THEN <<d.head>> \o
       [j \in 1..Len(d.tail) |-> SingleDecl(d.head.qualifier, d.head.ty, d.tail[j].name, d.head.arr)]
  ELSE <<>>

\* uniforms.push(i.head.clone()) and one entry per tail declarator
UniformsOfDecl(d) ==
  IF d.kind = "init" /\ HasUniform(d.head.qualifier)
  THEN <<d.head>> \o
       [j \in 1..Len(d.tail) |-> SingleDecl(d.head.qualifier, d.head.ty, d.tail[j].name, d.tail[j].arr)]
  ELSE <<>>

RECURSIVE ModuleUniforms(_)
ModuleUniforms(glsl) ==
  IF glsl = <<>> THEN <<>> ELSE UniformsOfDecl(Head(glsl)) \o ModuleUniforms(Tail(glsl))

ModuleBlocks(glsl) == SelectSeq(glsl, LAMBDA d : d.kind = "block")

ModuleFunctions(glsl) ==
  LET fns == SelectSeq(glsl, LAMBDA d : d.kind = "fn")
  IN  [i \in 1..Len(fns) |-> fns[i].def]

IsStructDecl(d) == d.kind = "init" /\ d.head.ty.def # <<>>

ModuleStructs(glsl) ==
  LET ds == SelectSeq(glsl, IsStructDecl)
  IN  [i \in 1..Len(ds) |-> ds[i].head.ty.def[1]]

-----------------------------------------------------------------------------
(* The text written to a sink, one entry per show_* call *)

ShowSingleDeclaration(d) == [k |-> "decl", d |-> d]

ShowBlock(b) == [k |-> "block", b |-> b]

ShowStruct(s) == [k |-> "struct", s |-> s]

ShowFunctionDefinition(f) == [k |-> "fn", f |-> f]

\* Declaration::Global(ty_qual, Vec::new())
ShowGlobal(q) == [k |-> "global", q |-> q]

ShowSingleDeclarations(ds) == [i \in 1..Len(ds) |-> ShowSingleDeclaration(ds[i])]

ShowBlocks(bs) == [i \in 1..Len(bs) |-> ShowBlock(bs[i])]

ShowStructs(ss) == [i \in 1..Len(ss) |-> ShowStruct(ss[i])]

ShowFunctionDefinitions(fs) == [i \in 1..Len(fs) |-> ShowFunctionDefinition(fs[i])]

IsSpecialName(n) == n \in {"map_vertex", "concat_map_prim", "map_frag_data"}

FilterOutSpecialFunctions(fns) == SelectSeq(fns, LAMBDA f : ~IsSpecialName(f.name))

\* a lookup that takes the last function named n
FindFunctionLast(fns, n) ==
  LET hits == SelectSeq(fns, LAMBDA f : f.name = n)
  IN  IF hits = <<>> THEN <<>> ELSE <<hits[Len(hits)]>>

\* functions.iter().find(|fd| &fd.prototype.name == n), as a list of at most one
FindFunction(fns, n) ==
  LET hits == SelectSeq(fns, LAMBDA f : f.name = n)
  IN  IF hits = <<>> THEN <<>> ELSE <<hits[1]>>

\* structs.iter().find(|s| s.name.as_ref() == Some(n)), as a list of at most one
FindStruct(structs, n) ==
  LET hits == SelectSeq(structs, LAMBDA s : s.name = n)
  IN  IF hits = <<>> THEN <<>> ELSE <<hits[1]>>

-----------------------------------------------------------------------------
(* Helpers of cheddar::syntax used by the stage sinks *)

\* struct_from_ty_spec: the struct of the table a type specifier names
StructFromTySpec(ts, structs) ==
  IF IsTypeName(ts) /\ FindStruct(structs, ts.ty) # <<>>
  THEN Ok(FindStruct(structs, ts.ty)[1])
  ELSE Err("ReturnTypeMustBeAStruct", <<ts.ty>>)

\* get_fn_ret_ty: the struct a function returns
GetFnRetTy(f, structs) == StructFromTySpec(f.ty.ty, structs)

\* drop_first_field: the struct without its reserved first field
DropFirstField(s) == [s EXCEPT !.fields = IF @ = <<>> THEN @ ELSE Tail(@)]

\* a field of a stage's return struct as the stage's `out` declaration
FieldToSingleDecl(field, prefix) ==
  SingleDecl(field.qualifier \o <<Storage("out")>>, field.ty,
             prefix \o field.identifiers[1].id, field.identifiers[1].arr)

\* fields_to_single_decls: one `out <prefix><field>` per field; composite fields
\* are rejected
FieldsToSingleDecls(fields, prefix) ==
  IF \E i \in 1..Len(fields) : fields[i].ty.def # <<>> \/ IsTypeName(fields[i].ty)
  THEN Err("OutputFieldCannotBeComposite", <<>>)
  ELSE Ok([i \in 1..Len(fields) |-> FieldToSingleDecl(fields[i], prefix)])

SwapOutIn(q) == [i \in 1..Len(q) |-> IF q[i] = Storage("out") THEN Storage("in") ELSE q[i]]

\* inputs_from_outputs: the previous stage's outputs as this stage's inputs,
\* as unsized arrays for the geometry stage
InputsFromOutputs(outputs, as_array) ==
  [i \in 1..Len(outputs) |->
     [outputs[i] EXCEPT !.qualifier = SwapOutIn(@),
                        !.ty.arr = IF as_array THEN Unsized ELSE NoArray]]

\* fn_arg_as_fully_spec_ty
FnArgAsFullySpecTy(arg) == [qualifier |-> arg.qualifier, ty |-> arg.ty]

\* get_ty_name_from_fully_spec_ty
GetTyNameFromFullySpecTy(fsty) ==
  IF IsTypeName(fsty.ty) THEN Ok(fsty.ty.ty) ELSE Err("NotATypeName", <<fsty.ty.ty>>)

\* get_fn1_input_ty_name: the type name of the single parameter
GetFn1InputTyName(f) ==
  IF Len(f.parameters) = 1
  THEN GetTyNameFromFullySpecTy(FnArgAsFullySpecTy(f.parameters[1]))
  ELSE Err("WrongNumberOfArgs", <<1, Len(f.parameters)>>)

\* is_fn_arg_named
IsFnArgNamed(arg) == arg.named

\* remove_unused_args_fn: the function without its unnamed parameters
RemoveUnusedArgsFn(f) == [f EXCEPT !.parameters = SelectSeq(@, IsFnArgNamed)]

\* sink_single_as_ext_decls
SinkSingleAsExtDecls(decls) == ShowSingleDeclarations(decls)

\* the generated `void main()` of a stage
Main(ty, init, call, args, assigns) ==
  [k |-> "main", ty |-> ty, init |-> init, call |-> call, args |-> args, assigns |-> assigns]

\* the identifiers of a list of struct fields, flattened
RECURSIVE FieldIds(_)
FieldIds(fields) ==
  IF fields = <<>> THEN <<>>
  ELSE [j \in 1..Len(Head(fields).identifiers) |-> Head(fields).identifiers[j].id]
       \o FieldIds(Tail(fields))

-----------------------------------------------------------------------------
(* The vertex stage *)

\* vertex_shader_input_qualifier(i, ty_qual)
VertexShaderInputQualifier(i, q) ==
  <<Layout(<<LayoutIdVal("location", i)>>), Storage("in")>> \o q

\* inputs located by their position among the named parameters only
VertexShaderInputsNamedIndex(params) ==
  LET named == SelectSeq(params, LAMBDA a : a.named)
  IN  [i \in 1..Len(named) |->
         SingleDecl(VertexShaderInputQualifier(i - 1, named[i].qualifier),
                    named[i].ty, named[i].name, named[i].arr)]

\* vertex_shader_inputs: one input per named parameter, located by its position
VertexShaderInputs(params) ==
  LET all == [i \in 1..Len(params) |->
                SingleDecl(VertexShaderInputQualifier(i - 1, params[i].qualifier),
                           params[i].ty, params[i].name, params[i].arr)]
  IN  Pick(all, [i \in 1..Len(params) |-> params[i].named])

\* a first-field test that looks at the identifier only
FirstFieldOkNameOnly(f) == f.identifiers = <<[id |-> "chdr_Position", arr |-> NoArray]>>

\* the first field is accepted: no qualifier, vec4, the one identifier chdr_Position
FirstFieldOk(f) ==
  /\ f.qualifier = <<>>
  /\ f.ty.def = <<>>
  /\ f.ty.ty = "vec4"
  /\ f.identifiers = <<[id |-> "chdr_Position", arr |-> NoArray]>>

\* vertex_shader_outputs
VertexShaderOutputs(fsty, structs) ==
  IF fsty.qualifier # <<>> THEN Err("OutputHasMainQualifier", <<>>)
  ELSE IF ~IsTypeName(fsty.ty) THEN Err("ReturnTypeMustBeAStruct", <<fsty.ty.ty>>)
  ELSE LET real_ty == FindStruct(structs, fsty.ty.ty)
       IN  IF real_ty = <<>> THEN Err("ReturnTypeMustBeAStruct", <<fsty.ty.ty>>)
           ELSE IF real_ty[1].fields = <<>> THEN Panic("s.fields[0]: index out of bounds")
           ELSE IF ~FirstFieldOk(real_ty[1].fields[1]) THEN Err("WrongOutputFirstField", <<>>)
           ELSE FieldsToSingleDecls(Tail(real_ty[1].fields), "chdr_v_")

\* an argument sink that writes the placeholder for every slot
SinkVertexShaderInputArgPlaceholder(i, arg) == "chdr_unused" \o ToString(i)

\* sink_vertex_shader_input_arg
SinkVertexShaderInputArg(i, arg) ==
  IF arg.named THEN arg.name ELSE "chdr_unused" \o ToString(i)

\* sink_vertex_shader_input_args: the first argument, then the named ones
SinkVertexShaderInputArgs(f) ==
  LET args == f.parameters
      given == [i \in 1..Len(args) |-> SinkVertexShaderInputArg(i - 1, args[i])]
  IN  Pick(given, [i \in 1..Len(args) |-> i = 1 \/ IsFnArgNamed(args[i])])

\* sink_vertex_shader_output: the assignments of main
SinkVertexShaderOutput(ty) ==
  LET ids == FieldIds(Tail(ty.fields))
  IN  <<(<<"gl_Position", "v.chdr_Position">>)>> \o
      [i \in 1..Len(ids) |-> <<"chdr_v_" \o ids[i], "v." \o ids[i]>>]

\* sink_vertex_shader: the stage's text, its return struct and its outputs
SinkVertexShader(map_vertex, structs) ==
  LET inputs == VertexShaderInputs(map_vertex.parameters)
      outputs == VertexShaderOutputs(map_vertex.ty, structs)
      ret_ty == GetFnRetTy(map_vertex, structs)
      reduced == RemoveUnusedArgsFn(map_vertex)
  IN  IF ~IsOk(outputs) THEN outputs
      ELSE IF ~IsOk(ret_ty) THEN ret_ty
      ELSE Ok([sink |-> SinkSingleAsExtDecls(inputs \o outputs.val)
                        \o <<ShowStruct(ret_ty.val)>>
                        \o <<ShowFunctionDefinition(reduced)>>
                        \o <<Main(ret_ty.val.name, <<>>, "map_vertex",
                                  SinkVertexShaderInputArgs(reduced),
                                  SinkVertexShaderOutput(ret_ty.val))>>,
               ret_ty |-> ret_ty.val,
               outputs |-> outputs.val])

-----------------------------------------------------------------------------
(* The geometry stage *)

\* a guess that takes every dimension from 1 to 6
GuessGsInputPrimUpToSix(arr) ==
  IF arr.kind # "lit" THEN Err("WrongGeometryInput", <<>>)
  ELSE CASE arr.size \in {1} -> Ok([dim |-> arr.size, layout |-> <<LayoutId("points")>>])
         [] arr.size \in {2} -> Ok([dim |-> arr.size, layout |-> <<LayoutId("lines")>>])
         [] arr.size \in {3} -> Ok([dim |-> arr.size, layout |-> <<LayoutId("triangles")>>])
         [] arr.size \in {4, 5} -> Ok([dim |-> arr.size, layout |-> <<LayoutId("lines_adjacency")>>])
         [] arr.size \in {6} -> Ok([dim |-> arr.size, layout |-> <<LayoutId("triangles_adjacency")>>])
         [] OTHER -> Err("WrongGeometryInputDim", <<arr.size>>)

\* guess_gs_input_prim: the input dimension and the input primitive layout
GuessGsInputPrim(arr) ==
  IF arr.kind # "lit" THEN Err("WrongGeometryInput", <<>>)
  ELSE CASE arr.size = 1 -> Ok([dim |-> 1, layout |-> <<LayoutId("points")>>])
         [] arr.size = 2 -> Ok([dim |-> 2, layout |-> <<LayoutId("lines")>>])
         [] arr.size = 3 -> Ok([dim |-> 3, layout |-> <<LayoutId("triangles")>>])
         [] arr.size = 4 -> Ok([dim |-> 4, layout |-> <<LayoutId("lines_adjacency")>>])
         [] arr.size = 6 -> Ok([dim |-> 6, layout |-> <<LayoutId("triangles_adjacency")>>])
         [] OTHER -> Err("WrongGeometryInputDim", <<arr.size>>)

\* a check that takes every primitive name
CheckGsOutputPrimAny(s) == TRUE

\* check_gs_output_prim
CheckGsOutputPrim(s) == s \in {"points", "line_strip", "triangle_strip"}

\* get_gs_output_layout_metadata: the layout of `layout(prim, max_vertices = n) out`
GetGsOutputLayoutMetadata(qual) ==
  IF /\ Len(qual) = 2
     /\ qual[1].q = "layout"
     /\ qual[2] = Storage("out")
     /\ Len(qual[1].ids) = 2
     /\ qual[1].ids[1].val = <<>>
     /\ qual[1].ids[2].val # <<>>
     /\ qual[1].ids[2].val[1].lit
     /\ qual[1].ids[2].id = "max_vertices"
     /\ CheckGsOutputPrim(qual[1].ids[1].id)
  THEN Ok(qual[1].ids)
  ELSE Err("WrongGeometryOutputLayout", <<>>)

\* gs_layout_storage_external_decl
GsLayoutStorageExternalDecl(layout, storage) == <<Layout(layout), Storage(storage)>>

\* a yield_vertex that emits the vertex before it assigns the outputs
YieldVertexEmitFirst(args, out_ty) ==
  IF Len(args) = 1
  THEN LET ids == FieldIds(out_ty.fields)
       IN  Ok(BlockStmt(
             <<[s |-> "decl", fn |-> "", args |-> <<out_ty.name, "chdr_v", args[1]>>, body |-> <<>>]>>
             \o <<CallStmt("EmitVertex", <<>>)>>
             \o [i \in 1..Len(ids) |->
                   [s |-> "assign", fn |-> "",
                    args |-> <<"chdr_g_" \o ids[i], "chdr_v." \o ids[i]>>, body |-> <<>>]]))
  ELSE Err("WrongNumberOfArgs", <<1, Len(args)>>)

\* yield_vertex: bind the argument to chdr_v, assign every output, EmitVertex()
YieldVertex(args, out_ty) ==
  IF Len(args) = 1
  THEN LET ids == FieldIds(out_ty.fields)
       IN  Ok(BlockStmt(
             <<[s |-> "decl", fn |-> "", args |-> <<out_ty.name, "chdr_v", args[1]>>, body |-> <<>>]>>
             \o [i \in 1..Len(ids) |->
                   [s |-> "assign", fn |-> "",
                    args |-> <<"chdr_g_" \o ids[i], "chdr_v." \o ids[i]>>, body |-> <<>>]]
             \o <<CallStmt("EmitVertex", <<>>)>>))
  ELSE Err("WrongNumberOfArgs", <<1, Len(args)>>)

\* yield_primitive
YieldPrimitive == CallStmt("EndPrimitive", <<>>)

\* the closure fix_concat_map_prim maps over the top-level statements
FixStatement(st, out_ty) ==
  IF st.s = "call" /\ st.fn = "yield_vertex" THEN YieldVertex(st.args, out_ty)
  ELSE IF st.s = "call" /\ st.fn = "yield_primitive" THEN Ok(YieldPrimitive)
  ELSE Ok(st)

\* fix_concat_map_prim: the rewritten function, or the first error of the rewrite
FixConcatMapPrim(f, out_ty) ==
  LET sts == [i \in 1..Len(f.statement) |-> FixStatement(f.statement[i], out_ty)]
      bad == {i \in 1..Len(sts) : ~IsOk(sts[i])}
  IN  IF bad # {} THEN sts[CHOOSE i \in bad : \A j \in bad : i <= j]
      ELSE Ok([f EXCEPT !.parameters = SubSeq(@, 1, IF Len(@) < 1 THEN Len(@) ELSE 1),
                        !.statement = [i \in 1..Len(sts) |-> sts[i].val]])

\* gs_create_vertex_array: the constructor arguments of each of the dim vertices
GsCreateVertexArray(v_ty, dim) ==
  LET ids == FieldIds(v_ty.fields)
  IN  [i \in 1..dim |->
         [j \in 1..Len(ids) |-> "chdr_v_" \o ids[j] \o "[" \o ToString(i - 1) \o "]"]]

\* an input type test that accepts every type name
InputTypeAlwaysMatches(input_ty_name, prev_ret_ty) == TRUE

\* Some(&input_ty_name) == prev_ret_ty.name.as_ref(): the stage takes the struct
\* the stage before it returns
InputTypeMatches(input_ty_name, prev_ret_ty) == input_ty_name = prev_ret_ty.name

\* sink_geometry_shader
SinkGeometryShader(concat_map_prim, structs, prev_ret_ty, prev_inputs) ==
  LET fn_args == concat_map_prim.parameters
  IN  IF Len(fn_args) # 2 THEN Err("WrongNumberOfArgs", <<2, Len(fn_args)>>)
      ELSE
      LET input == FnArgAsFullySpecTy(fn_args[1])
          output == FnArgAsFullySpecTy(fn_args[2])
          output_ty == StructFromTySpec(output.ty, structs)
          input_ty_name == GetTyNameFromFullySpecTy(input)
          input_prim == GuessGsInputPrim(input.ty.arr)
          output_layout == GetGsOutputLayoutMetadata(output.qualifier)
      IN  IF ~IsOk(output_ty) THEN output_ty
          ELSE IF ~IsOk(input_ty_name) THEN input_ty_name
          ELSE IF ~IsOk(input_prim) THEN input_prim
          ELSE IF ~IsOk(output_layout) THEN output_layout
          ELSE IF ~InputTypeMatches(input_ty_name.val, prev_ret_ty)
               THEN Err("UnknownInputType", <<input_ty_name.val>>)
          ELSE
          LET inputs == InputsFromOutputs(prev_inputs, TRUE)
              outputs == FieldsToSingleDecls(output_ty.val.fields, "chdr_g_")
              fixed == FixConcatMapPrim(concat_map_prim, output_ty.val)
          IN  IF ~IsOk(outputs) THEN outputs
              ELSE IF ~IsOk(fixed) THEN fixed
              ELSE Ok([sink |->
                         <<ShowGlobal(GsLayoutStorageExternalDecl(input_prim.val.layout, "in")),
                           ShowGlobal(GsLayoutStorageExternalDecl(output_layout.val, "out"))>>
                         \o SinkSingleAsExtDecls(inputs \o outputs.val)
                         \o <<ShowStruct(prev_ret_ty), ShowStruct(output_ty.val)>>
                         \o <<ShowFunctionDefinition(fixed.val)>>
                         \o <<Main(prev_ret_ty.name,
                                   GsCreateVertexArray(prev_ret_ty, input_prim.val.dim),
                                   "concat_map_prim", <<"v">>, <<>>)>>,
                       ret_ty |-> output_ty.val,
                       outputs |-> outputs.val])

-----------------------------------------------------------------------------
(* The fragment stage *)

\* sink_fragment_shader
SinkFragmentShader(map_frag_data, structs, prev_ret_ty, prev_inputs) ==
  LET input_ty_name == GetFn1InputTyName(map_frag_data)
  IN  IF ~IsOk(input_ty_name) THEN input_ty_name
      ELSE IF ~InputTypeMatches(input_ty_name.val, prev_ret_ty)
           THEN Err("UnknownInputType", <<input_ty_name.val>>)
      ELSE
      LET inputs == InputsFromOutputs(prev_inputs, FALSE)
          ret_ty == GetFnRetTy(map_frag_data, structs)
      IN  IF ~IsOk(ret_ty) THEN ret_ty
          ELSE
          LET outputs == FieldsToSingleDecls(ret_ty.val.fields, "chdr_f_")
          IN  IF ~IsOk(outputs) THEN outputs
              \* sink.write_str(inputs[0].name..) with no input at all
              ELSE IF inputs = <<>> THEN Panic("inputs[0]: index out of bounds")
              ELSE Ok([sink |->
                         SinkSingleAsExtDecls(inputs \o outputs.val)
                         \o <<ShowStruct(prev_ret_ty), ShowStruct(ret_ty.val)>>
                         \o <<ShowFunctionDefinition(RemoveUnusedArgsFn(map_frag_data))>>
                         \o <<Main(prev_ret_ty.name,
                                   [i \in 1..Len(inputs) |-> inputs[i].name],
                                   "map_frag_data", <<"i">>,
                                   [i \in 1..Len(outputs.val) |->
                                      <<outputs.val[i].name,
                                        "o." \o ret_ty.val.fields[i].identifiers[1].id>>])>>,
                       ret_ty |-> ret_ty.val,
                       outputs |-> outputs.val])

-----------------------------------------------------------------------------
(* The driver: Module::to_glsl_setup *)

\* every struct of the table, stage-local or not
StructsStrUnfiltered(structs, filter_out_struct_def) == ShowStructs(structs)

\* for s in &structs { if !filter_out_struct_def.contains(&s.name) { show_struct } }
StructsStr(structs, filter_out_struct_def) ==
  ShowStructs(SelectSeq(structs, LAMBDA s : s.name \notin filter_out_struct_def))

\* a common framework that writes the blocks before the uniforms
CommonOfBlocksFirst(uniforms, blocks, functions) ==
  ShowBlocks(blocks)
  \o ShowSingleDeclarations(uniforms)
  \o ShowFunctionDefinitions(FilterOutSpecialFunctions(functions))

\* the uniforms, the blocks and the functions that are no pipeline function
CommonOf(uniforms, blocks, functions) ==
  ShowSingleDeclarations(uniforms)
  \o ShowBlocks(blocks)
  \o ShowFunctionDefinitions(FilterOutSpecialFunctions(functions))

\* ModuleFold { vs, gs, fs }; gs holds the geometry source when there is one
ModuleFold(vs, gs, fs) == [vs |-> vs, gs |-> IF gs = <<>> THEN <<>> ELSE <<gs>>, fs |-> fs]

\* the lookup with the fragment function looked up first
PipelineFunctionsFragmentFirst(functions) ==
  IF FindFunction(functions, "map_frag_data") = <<>> THEN Err("NoFragmentShader", <<>>)
  ELSE IF FindFunction(functions, "map_vertex") = <<>> THEN Err("NoVertexShader", <<>>)
  ELSE Ok([map_vertex |-> FindFunction(functions, "map_vertex"),
           concat_map_prim |-> FindFunction(functions, "concat_map_prim"),
           map_frag_data |-> FindFunction(functions, "map_frag_data")])

\* get the special functions: map_vertex and map_frag_data are required
PipelineFunctions(functions) ==
  IF FindFunction(functions, "map_vertex") = <<>> THEN Err("NoVertexShader", <<>>)
  ELSE IF FindFunction(functions, "map_frag_data") = <<>> THEN Err("NoFragmentShader", <<>>)
  ELSE Ok([map_vertex |-> FindFunction(functions, "map_vertex"),
           concat_map_prim |-> FindFunction(functions, "concat_map_prim"),
           map_frag_data |-> FindFunction(functions, "map_frag_data")])

ToGlslSetup(glsl) ==
  LET uniforms == ModuleUniforms(glsl)
      blocks == ModuleBlocks(glsl)
      structs == ModuleStructs(glsl)
      functions == ModuleFunctions(glsl)
      common0 == CommonOf(uniforms, blocks, functions)
      special == PipelineFunctions(functions)
  IN  IF ~IsOk(special) THEN special
      ELSE
      LET map_vertex == special.val.map_vertex
          concat_map_prim == special.val.concat_map_prim
          map_frag_data == special.val.map_frag_data
      IN
      LET v == SinkVertexShader(map_vertex[1], structs)
      IN  IF ~IsOk(v) THEN v
          ELSE
          LET vertex_ret_ty_fixed == DropFirstField(v.val.ret_ty)
              g == IF concat_map_prim # <<>>
                   THEN SinkGeometryShader(concat_map_prim[1], structs,
                                           vertex_ret_ty_fixed, v.val.outputs)
                   ELSE Ok([sink |-> <<>>, ret_ty |-> vertex_ret_ty_fixed,
                            outputs |-> v.val.outputs])
          IN  IF ~IsOk(g) THEN g
              ELSE
              LET f == SinkFragmentShader(map_frag_data[1], structs, g.val.ret_ty, g.val.outputs)
              IN  IF ~IsOk(f) THEN f
                  ELSE
                  LET filter_out_struct_def ==
                        {vertex_ret_ty_fixed.name, f.val.ret_ty.name}
                        \cup (IF concat_map_prim # <<>> THEN {g.val.ret_ty.name} ELSE {})
                      common == StructsStr(structs, filter_out_struct_def) \o common0
                  IN  IF v.val.sink = <<>> THEN Err("NoVertexShader", <<>>)
                      ELSE IF f.val.sink = <<>> THEN Err("NoFragmentShader", <<>>)
                      ELSE Ok(ModuleFold(common \o v.val.sink, g.val.sink, common \o f.val.sink))

-----------------------------------------------------------------------------
(* Pipeline modules handed to the lowering *)

\* the i-th field a struct declares after its first one
ExtraField(i) == Field(<<>>, IF i % 2 = 1 THEN "vec4" ELSE "vec3", "f" \o ToString(i))

ExtraFields(n) == [i \in 1..n |-> ExtraField(i)]

\* the first fields a vertex struct is tried with
FirstFields ==
  <<Field(<<>>, "vec4", "chdr_Position"),
    Field(<<>>, "vec3", "chdr_Position"),
    Field(<<>>, "vec4", "position"),
    Field(<<Storage("flat")>>, "vec4", "chdr_Position"),
    [Field(<<>>, "vec4", "chdr_Position") EXCEPT
       !.identifiers = @ \o <<[id |-> "w", arr |-> NoArray]>>]>>

VertexStruct(first, n) == StructSpec("Vertex", <<FirstFields[first]>> \o ExtraFields(n))

GStruct == StructSpec("G", <<Field(<<>>, "vec4", "gcolor")>>)

FStruct(n) == StructSpec("F", <<Field(<<>>, "vec4", "c")>> \o ExtraFields(n - 1))

LightStruct == StructSpec("Light", <<Field(<<>>, "vec3", "dir")>>)

OtherBody == <<CallStmt("compute", <<"x">>)>>

\* the parameter lists map_vertex is tried with
VertexParams ==
  <<(<<NamedParam(<<>>, TypeSpec("vec3", NoArray), "p")>>),
    (<<UnnamedParam(<<>>, TypeSpec("vec3", NoArray)),
       NamedParam(<<>>, TypeSpec("vec4", NoArray), "color")>>),
    (<<NamedParam(<<>>, TypeSpec("vec3", NoArray), "p"),
       UnnamedParam(<<>>, TypeSpec("vec4", NoArray))>>),
    <<>>,
    (<<NamedParam(<<>>, TypeSpec("vec3", NoArray), "p"),
       UnnamedParam(<<>>, TypeSpec("vec4", NoArray)),
       NamedParam(<<Storage("flat")>>, TypeSpec("float", NoArray), "w")>>)>>

\* the definitions of map_vertex a module is tried with, as lists of at most one
MapVertexDefs ==
  {<<>>}
  \cup {<<FunctionDef(<<>>, TypeSpec("Vertex", NoArray), "map_vertex", VertexParams[i], OtherBody)>>
        : i \in 1..Len(VertexParams)}
  \cup {<<FunctionDef(<<Storage("flat")>>, TypeSpec("Vertex", NoArray), "map_vertex", VertexParams[1], OtherBody)>>,
        <<FunctionDef(<<>>, TypeSpec("vec4", NoArray), "map_vertex", VertexParams[1], OtherBody)>>,
        <<FunctionDef(<<>>, TypeSpec("Missing", NoArray), "map_vertex", VertexParams[1], OtherBody)>>}

GsOutQualifier(prim) ==
  <<Layout(<<LayoutId(prim), LayoutIdVal("max_vertices", 3)>>), Storage("out")>>

YieldBody ==
  <<CallStmt("yield_vertex", <<"G(vs[0].f1)">>), OtherBody[1],
    BlockStmt(<<CallStmt("yield_vertex", <<"G(vs[1].f1)">>)>>),
    CallStmt("yield_primitive", <<>>)>>

ConcatMapPrim(in_ty, arr, out_q, out_ty, body) ==
  FunctionDef(<<>>, TypeSpec("void", NoArray), "concat_map_prim",
              <<NamedParam(<<>>, TypeSpec(in_ty, arr), "vs"), UnnamedParam(out_q, TypeSpec(out_ty, NoArray))>>,
              body)

\* the definitions of concat_map_prim a module is tried with
ConcatMapPrimDefs ==
  {<<>>}
  \cup {<<ConcatMapPrim("Vertex", Sized(3), GsOutQualifier("triangle_strip"), out, YieldBody)>>
        : out \in {"G", "Vertex", "F", "Missing"}}
  \cup {<<ConcatMapPrim("Vertex", arr, GsOutQualifier("triangle_strip"), "G", YieldBody)>>
        : arr \in {Sized(1), Sized(5), NoArray, SizedByExpr}}
  \cup {<<ConcatMapPrim("G", Sized(3), GsOutQualifier("triangle_strip"), "G", YieldBody)>>,
        <<ConcatMapPrim("Vertex", Sized(3), GsOutQualifier("triangles"), "G", YieldBody)>>,
        <<ConcatMapPrim("Vertex", Sized(3), <<>>, "G", YieldBody)>>,
        <<ConcatMapPrim("Vertex", Sized(3), GsOutQualifier("points"), "G", OtherBody)>>,
        <<ConcatMapPrim("Vertex", Sized(3), GsOutQualifier("points"), "G",
                        <<CallStmt("yield_vertex", <<>>)>>)>>,
        <<[ConcatMapPrim("Vertex", Sized(3), GsOutQualifier("points"), "G", YieldBody)
             EXCEPT !.parameters = SubSeq(@, 1, 1)]>>}

\* the definitions of map_frag_data a module is tried with
MapFragDataDefs ==
  {<<>>}
  \cup {<<FunctionDef(<<>>, TypeSpec(ret, NoArray), "map_frag_data",
                      <<NamedParam(<<>>, TypeSpec(in_ty, NoArray), "v")>>, OtherBody)>>
        : ret \in {"F", "G", "Missing"}, in_ty \in {"Vertex", "G", "F"}}
  \cup {<<FunctionDef(<<>>, TypeSpec("F", NoArray), "map_frag_data", <<>>, OtherBody)>>}

\* what a module declares besides its pipeline
ExtraDecls ==
  <<StructDecl(LightStruct), UniformDecl("mat4", "proj", <<[name |-> "view", arr |-> NoArray]>>),
    BlockDecl("Camera"),
    FnDecl(FunctionDef(<<>>, TypeSpec("float", NoArray), "helper", <<>>, OtherBody))>>

\* the same kinds of declarations in another source order, two of each but the struct
ExtraDeclsMixed ==
  <<FnDecl(FunctionDef(<<>>, TypeSpec("vec3", NoArray), "shade", <<>>, OtherBody)),
    BlockDecl("Lights"),
    UniformDecl("vec3", "eye", <<>>),
    FnDecl(FunctionDef(<<>>, TypeSpec("float", NoArray), "helper", <<>>, OtherBody)),
    StructDecl(LightStruct),
    BlockDecl("Camera"),
    UniformDecl("mat4", "proj", <<[name |-> "view", arr |-> Sized(2)]>>)>>

\* what a module is tried with besides its pipeline: nothing, or one of the two lists
ExtraDeclSets == <<(<<>>), ExtraDecls, ExtraDeclsMixed>>

\* the declarations of a pipeline module
PipelineGlsl(extras, vfirst, vn, fn, mv, cmp, mfd) ==
  ExtraDeclSets[extras]
  \o <<StructDecl(VertexStruct(vfirst, vn)), StructDecl(GStruct), StructDecl(FStruct(fn))>>
  \o [i \in 1..Len(mv) |-> FnDecl(mv[i])]
  \o [i \in 1..Len(cmp) |-> FnDecl(cmp[i])]
  \o [i \in 1..Len(mfd) |-> FnDecl(mfd[i])]

-----------------------------------------------------------------------------
(* The lowering as a state machine *)

InitLower ==
  /\ store = [k \in Keys |-> NotLoadable]
  /\ root = KeyOrder[1]
  /\ pc = "folded"
  /\ stack = <<>>
  /\ parents = <<>>
  /\ deps = <<>>
  /\ result = NoResult
  /\ \E extras \in 1..Len(ExtraDeclSets), vfirst \in 1..Len(FirstFields), vn \in 0..MaxExtraFields,
        fn \in 1..MaxExtraFields, mv \in MapVertexDefs, cmp \in ConcatMapPrimDefs,
        mfd \in MapFragDataDefs :
       folded = [imports |-> <<>>, glsl |-> PipelineGlsl(extras, vfirst, vn, fn, mv, cmp, mfd)]
  /\ setup = NoSetup

\* module.to_glsl_setup()
Lower ==
  /\ pc = "folded"
  /\ setup' = ToGlslSetup(folded.glsl)
  /\ pc' = "lowered"
  /\ UNCHANGED <<store, root, stack, parents, deps, result, folded>>

NextLower == Lower

SpecLower == InitLower /\ [][NextLower]_vars

-----------------------------------------------------------------------------
(* The lowering of pipelines that differ in the parameters of concat_map_prim *)

\* the largest integer literal the input array is dimensioned with
MaxDim == 7

\* the number of entries of the longest output layout
MaxLayoutIds == 3

\* the array specifiers of the input parameter
GeoArrays == {NoArray, Unsized, SizedByExpr} \cup {Sized(n) : n \in 0..MaxDim}

\* the entries an output layout is made of
LayoutEntries ==
  {LayoutId("points"), LayoutId("line_strip"), LayoutId("triangle_strip"),
   LayoutId("triangles"), LayoutIdVal("points", 1),
   LayoutIdVal("max_vertices", 3), LayoutId("max_vertices"), LayoutIdExpr("max_vertices")}

GeoLayouts == UNION {[1..n -> LayoutEntries] : n \in 0..MaxLayoutIds}

\* the qualifiers of the output parameter: none, or a layout alone, before or
\* after a storage qualifier, or with one qualifier more
GeoQualifiers ==
  {<<>>}
  \cup UNION {{<<Layout(l), Storage("out")>>, <<Storage("out"), Layout(l)>>, <<Layout(l)>>,
               <<Layout(l), Storage("in")>>, <<Layout(l), Storage("out"), Storage("flat")>>}
              : l \in GeoLayouts}

\* a pipeline whose vertex and fragment stage are accepted
InitGeometry ==
  /\ store = [k \in Keys |-> NotLoadable]
  /\ root = KeyOrder[1]
  /\ pc = "folded"
  /\ stack = <<>>
  /\ parents = <<>>
  /\ deps = <<>>
  /\ result = NoResult
  /\ \E arr \in GeoArrays, q \in GeoQualifiers :
       folded =
         [imports |-> <<>>,
          glsl |-> PipelineGlsl(1, 1, 1, 1,
                     <<FunctionDef(<<>>, TypeSpec("Vertex", NoArray), "map_vertex",
                                   VertexParams[1], OtherBody)>>,
                     <<ConcatMapPrim("Vertex", arr, q, "G", YieldBody)>>,
                     <<FunctionDef(<<>>, TypeSpec("F", NoArray), "map_frag_data",
                                   <<NamedParam(<<>>, TypeSpec("G", NoArray), "v")>>,
                                   OtherBody)>>)]
  /\ setup = NoSetup

SpecGeometry == InitGeometry /\ [][NextLower]_vars

-----------------------------------------------------------------------------
(* The classifier as a state machine *)

\* the number of declarations of the longest module that is classified
MaxDecls == 3

\* the external declarations a classified module is made of
ClassifyDecls ==
  {[UniformDecl("mat4", "proj", <<[name |-> "view", arr |-> NoArray]>>) EXCEPT !.head.arr = Sized(4)],
   UniformDecl("vec3", "eye", <<[name |-> "up", arr |-> Sized(2)], [name |-> "at", arr |-> NoArray]>>),
   InitDeclList(SingleDecl(<<Layout(<<LayoutIdVal("location", 1)>>), Storage("uniform")>>,
                           TypeSpec("vec4", NoArray), "tint", NoArray), <<>>),
   InitDeclList(SingleDecl(<<Storage("in")>>, TypeSpec("vec3", NoArray), "a", NoArray),
                <<[name |-> "b", arr |-> NoArray]>>),
   InitDeclList(SingleDecl(<<>>, TypeSpec("float", NoArray), "g", NoArray), <<>>),
   BlockDecl("Camera"),
   FnDecl(FunctionDef(<<>>, TypeSpec("float", NoArray), "helper", <<>>, OtherBody)),
   StructDecl(LightStruct)}

InitClassify ==
  /\ store = [k \in Keys |-> NotLoadable]
  /\ root = KeyOrder[1]
  /\ pc = "folded"
  /\ stack = <<>>
  /\ parents = <<>>
  /\ deps = <<>>
  /\ result = NoResult
  /\ \E n \in 0..MaxDecls : \E glsl \in [1..n -> ClassifyDecls] :
       folded = [imports |-> <<>>, glsl |-> glsl]
  /\ setup = NoSetup

\* self.uniforms(), self.blocks(), self.structs(), self.functions()
Classify ==
  /\ pc = "folded"
  /\ setup' = Ok([uniforms |-> ModuleUniforms(folded.glsl),
                  blocks |-> ModuleBlocks(folded.glsl),
                  structs |-> ModuleStructs(folded.glsl),
                  functions |-> ModuleFunctions(folded.glsl)])
  /\ pc' = "classified"
  /\ UNCHANGED <<store, root, stack, parents, deps, result, folded>>

NextClassify == Classify

SpecClassify == InitClassify /\ [][NextClassify]_vars

-----------------------------------------------------------------------------
(* The rewrite of concat_map_prim as a state machine *)

\* the length of the longest statement list concat_map_prim is tried with
MaxStmts == 3

\* the top-level statements concat_map_prim is tried with
FixStatements ==
  {CallStmt("yield_vertex", <<"G(vs[0].f1)">>),
   CallStmt("yield_vertex", <<>>),
   CallStmt("yield_vertex", <<"a", "b">>),
   CallStmt("yield_primitive", <<>>),
   CallStmt("yield_primitive", <<"a">>),
   CallStmt("compute", <<"x">>),
   [s |-> "decl", fn |-> "", args |-> <<"float", "t", "1.">>, body |-> <<>>],
   BlockStmt(<<CallStmt("yield_vertex", <<"G(vs[1].f1)">>), CallStmt("yield_primitive", <<>>)>>)}

\* the statement lists of at most MaxStmts statements
FixBodies == UNION {[1..n -> FixStatements] : n \in 0..MaxStmts}

\* the output structs the rewrite is tried with: one field, or three members
FixOutStructs ==
  {GStruct,
   StructSpec("G", <<Field(<<>>, "vec4", "gcolor"),
                     [Field(<<>>, "vec3", "n") EXCEPT
                        !.identifiers = @ \o <<[id |-> "t", arr |-> NoArray]>>]>>)}

InitFix ==
  /\ store = [k \in Keys |-> NotLoadable]
  /\ root = KeyOrder[1]
  /\ pc = "parsed"
  /\ stack = <<>>
  /\ parents = <<>>
  /\ deps = <<>>
  /\ result = NoResult
  /\ \E out \in FixOutStructs, body \in FixBodies :
       folded = [imports |-> <<>>,
                 glsl |-> <<StructDecl(out),
                            FnDecl(ConcatMapPrim("Vertex", Sized(3), GsOutQualifier("points"),
                                                 out.name, body))>>]
  /\ setup = NoSetup

\* fix_concat_map_prim(concat_map_prim.clone(), &output_ty)
FixCall ==
  /\ pc = "parsed"
  /\ setup' = FixConcatMapPrim(ModuleFunctions(folded.glsl)[1], ModuleStructs(folded.glsl)[1])
  /\ pc' = "fixed"
  /\ UNCHANGED <<store, root, stack, parents, deps, result, folded>>

NextFix == FixCall

SpecFix == InitFix /\ [][NextFix]_vars

-----------------------------------------------------------------------------
(* The import graph, for the statements about the resolver *)

\* the modules k imports
Targets(k) == {store[k].imports[i] : i \in 1..Len(store[k].imports)}

RECURSIVE Closure(_)
Closure(S) ==
  LET T == S \cup UNION {Targets(k) : k \in S}
  IN  IF T = S THEN S ELSE Closure(T)

\* the modules reachable from the root, the root included
Reachable == Closure({root})

\* k imports itself, directly or through other modules
OnCycle(k) == k \in Closure(Targets(k))

HasCycle == \E k \in Reachable : OnCycle(k)

AllReachableLoaded == \A k \in Reachable : store[k].loaded

Done == pc = "done"

Succeeded == Done /\ result.status = "Ok"

NoRepeats(s) == \A i, j \in 1..Len(s) : s[i] = s[j] => i = j

DiamondStore(first, second) ==
  StoreOf(Loaded("a", <<first, second>>), Loaded("b", <<"d">>),
          Loaded("c", <<"d">>), Loaded("d", <<>>))

TwoCycleStore ==
  StoreOf(Loaded("a", <<"b">>), Loaded("b", <<"a">>), NotLoadable, NotLoadable)

-----------------------------------------------------------------------------
(* Resolver statements *)

\* C1: when gather returns Ok((_, deps)), every import n of every module m of
\* deps ++ [root] stands strictly before m in deps ++ [root].
C1_Topological ==
  Succeeded =>
    LET order == result.deps \o <<root>>
    IN  \A p \in 1..Len(order) :
          \A n \in Targets(order[p]) :
            \E q \in 1..(p - 1) : order[q] = n

C1_Witness ==
  /\ Succeeded
  /\ Len(result.deps) >= 3
  /\ \E k \in Keys \ {root} : Contains(result.deps, k) /\ Targets(k) # {}

C3_NoRepeats ==
  /\ NoRepeats(deps)
  /\ Done => NoRepeats(result.deps)

C3_Witness ==
  /\ Succeeded
  /\ \E k \in Reachable : ~NoRepeats(store[k].imports)
  /\ \E k1, k2 \in Reachable : k1 # k2 /\ Targets(k1) \cap Targets(k2) # {}

\* C4: on success the folded module has no imports and its declarations are those
\* of the modules of deps, in deps order, followed by the root's own: every
\* declaration of the root and of every module the root reaches occurs exactly
\* once, and the root's declarations come last.
C4_Fold ==
  Succeeded =>
    LET m == result.module[1]
        order == result.deps \o <<root>>
        Before(p) == {q \in 1..Len(order) : q < p}
        \* where the declarations of order[p] start in the folded module
        RECURSIVE Offset(_)
        Offset(p) == IF p = 1 THEN 0 ELSE Offset(p - 1) + Len(store[order[p - 1]].glsl)
    IN  /\ Len(result.module) = 1
        /\ m.imports = <<>>
        /\ {order[p] : p \in 1..Len(order)} = Reachable
        /\ \A p \in 1..Len(order) :
             \A j \in 1..Len(store[order[p]].glsl) :
               m.glsl[Offset(p) + j] = store[order[p]].glsl[j]
        /\ Len(m.glsl) = Offset(Len(order)) + Len(store[root].glsl)
        /\ \A k \in Reachable :
             \A j \in 1..Len(store[k].glsl) :
               Cardinality({x \in 1..Len(m.glsl) : m.glsl[x] = store[k].glsl[j]}) = 1

C4_Witness ==
  /\ Succeeded
  /\ Len(result.deps) >= 2
  /\ \A i \in 1..Len(result.deps) : store[result.deps[i]].glsl # <<>>

\* the depth-first post-order of the modules reached from the imports i.. of k,
\* appended to acc, skipping what acc already lists
RECURSIVE PostOrder(_, _, _)
PostOrder(k, i, acc) ==
  IF i > Len(store[k].imports) THEN acc
  ELSE LET n == store[k].imports[i]
       IN  IF Contains(acc, n) THEN PostOrder(k, i + 1, acc)
           ELSE PostOrder(k, i + 1, Append(PostOrder(n, 1, acc), n))

\* C5: deps is the depth-first post-order of the import graph, imports visited in
\* source order; for A importing [B, C] with B and C importing D, gather(A)
\* returns deps [D, B, C], and [D, C, B] when A imports [C, B], with D once.
C5_PostOrder ==
  /\ Succeeded => result.deps = PostOrder(root, 1, <<>>)
  /\ (Done /\ root = "a" /\ store = DiamondStore("b", "c")) =>
       (result.status = "Ok" /\ result.deps = <<"d", "b", "c">>)
  /\ (Done /\ root = "a" /\ store = DiamondStore("c", "b")) =>
       (result.status = "Ok" /\ result.deps = <<"d", "c", "b">>)

C5_Witness ==
  /\ Done
  /\ root = "a"
  /\ store = DiamondStore("b", "c")
  /\ result.deps = <<"d", "b", "c">>

\* C6: an import whose target key is on the ancestors stack (a self import
\* included) makes the resolution fail with Cycle(k, k), k the import's target;
\* with a importing b and b importing a, gather on a returns Cycle(a, a).
C6_CycleKey ==
  /\ [][(AtImport /\ InParents(CurImport)) =>
          /\ pc' = "done"
          /\ result'.status = "Cycle"
          /\ result'.err = <<CurImport, CurImport>>]_vars
  /\ []((Done /\ root = "a" /\ store = TwoCycleStore) =>
          (result.status = "Cycle" /\ result.err = <<"a", "a">>))

C6_Witness ==
  /\ Done
  /\ root = "a"
  /\ store = TwoCycleStore
  /\ result.status = "Cycle"
  /\ result.err = <<"a", "a">>

\* C7: when the store has no module for an import target that is neither in the
\* seen list nor on the ancestors stack, gather fails with LoadError(k), k the key
\* that could not be loaded and not the importer's, and returns no folded module.
C7_LoadErrorKey ==
  [][(AtImport /\ ~InDeps(CurImport) /\ ~InParents(CurImport) /\ ~store[CurImport].loaded) =>
       /\ pc' = "done"
       /\ result'.status = "LoadError"
       /\ result'.err = <<CurImport>>
       /\ result'.err # <<Top.key>>
       /\ result'.module = <<>>]_vars

C7_Witness ==
  /\ Done
  /\ result.status = "LoadError"
  /\ Len(stack) >= 2
  /\ ~store[result.err[1]].loaded
  /\ store[Top.key].imports[Top.i] = result.err[1]

-----------------------------------------------------------------------------
(* Lowering statements *)

Lowered == pc = "lowered"

\* the functions named n of the folded module, in declaration order
FnsNamed(n) ==
  LET ds == SelectSeq(folded.glsl, LAMBDA d : d.kind = "fn")
  IN  SelectSeq([i \in 1..Len(ds) |-> ds[i].def], LAMBDA f : f.name = n)

HasFn(n) == FnsNamed(n) # <<>>

\* the fields of the struct named n the folded module declares first
FieldsOfStruct(n) ==
  LET ds == SelectSeq(folded.glsl, LAMBDA d : d.kind = "init" /\ d.head.ty.def # <<>>)
      hit == SelectSeq(ds, LAMBDA d : d.head.ty.def[1].name = n)
  IN  hit[1].head.ty.def[1].fields

\* the names of the structs a stage source defines
StructsDefinedIn(src) == {src[i].s.name : i \in {j \in 1..Len(src) : src[j].k = "struct"}}

\* src declares `q ty name;`
Declares(src, q, ty, name) ==
  \E i \in 1..Len(src) :
    /\ src[i].k = "decl"
    /\ src[i].d.qualifier = q
    /\ src[i].d.ty.ty = ty
    /\ src[i].d.name = name

\* the spec's minimum pipeline: the vertex struct is { vec4 chdr_Position; }, the
\* first parameter of map_vertex is named, there is no concat_map_prim and
\* map_frag_data takes the vertex struct and returns the struct F
MinimumPipeline ==
  /\ HasFn("map_vertex") /\ HasFn("map_frag_data") /\ ~HasFn("concat_map_prim")
  /\ LET mv == FnsNamed("map_vertex")[1]
         mfd == FnsNamed("map_frag_data")[1]
     IN  /\ mv.ty = [qualifier |-> <<>>, ty |-> TypeSpec("Vertex", NoArray)]
         /\ FieldsOfStruct("Vertex") = <<Field(<<>>, "vec4", "chdr_Position")>>
         /\ Len(mv.parameters) >= 1 /\ mv.parameters[1].named
         /\ Len(mfd.parameters) = 1 /\ mfd.parameters[1].named
         /\ mfd.parameters[1].ty = TypeSpec("Vertex", NoArray)
         /\ mfd.ty = [qualifier |-> <<>>, ty |-> TypeSpec("F", NoArray)]

\* C8: lowering the minimum pipeline succeeds with gs = None, a vertex source
\* holding the location-0 input declaration and a fragment source holding one
\* out chdr_f_<field> per field of the fragment return struct.
C8_MinimumPipeline ==
  (Lowered /\ MinimumPipeline) =>
    /\ setup.st = "Ok"
    /\ setup.val.gs = <<>>
    /\ LET p == FnsNamed("map_vertex")[1].parameters[1]
       IN  Declares(setup.val.vs,
                    <<Layout(<<LayoutIdVal("location", 0)>>), Storage("in")>>, p.ty.ty, p.name)
    /\ \A i \in 1..Len(FieldsOfStruct("F")) :
         LET f == FieldsOfStruct("F")[i]
         IN  Declares(setup.val.fs, <<Storage("out")>>, f.ty.ty, "chdr_f_" \o f.identifiers[1].id)

\* C9: without a function named map_vertex the lowering returns NoVertexShader,
\* whether map_frag_data is there or not; with map_vertex and without
\* map_frag_data it returns NoFragmentShader, however map_vertex is written.
C9_MissingStage ==
  Lowered =>
    /\ ~HasFn("map_vertex") => (setup.st = "Err" /\ setup.err = "NoVertexShader")
    /\ (HasFn("map_vertex") /\ ~HasFn("map_frag_data")) =>
         (setup.st = "Err" /\ setup.err = "NoFragmentShader")

C9_Witness ==
  /\ Lowered
  /\ HasFn("map_vertex")
  /\ FnsNamed("map_vertex")[1].ty.qualifier # <<>>
  /\ ~HasFn("map_frag_data")
  /\ setup.err = "NoFragmentShader"

\* the stage-local struct names of a lowered pipeline
VertexRetName == FnsNamed("map_vertex")[1].ty.ty.ty

GeometryOutName == FnsNamed("concat_map_prim")[1].parameters[2].ty.ty

FragmentRetName == FnsNamed("map_frag_data")[1].ty.ty.ty

StageLocalNames ==
  {VertexRetName, FragmentRetName} \cup (IF HasFn("concat_map_prim") THEN {GeometryOutName} ELSE {})

\* the stage sources of a successful lowering with the struct names each owns and
\* the name of the return struct of the stage before it
StageSources ==
  {[src |-> setup.val.vs, owns |-> {VertexRetName}, prev |-> {}],
   [src |-> setup.val.fs, owns |-> {FragmentRetName},
    prev |-> IF HasFn("concat_map_prim") THEN {GeometryOutName} ELSE {VertexRetName}]}
  \cup (IF setup.val.gs = <<>> THEN {}
        ELSE {[src |-> setup.val.gs[1], owns |-> {GeometryOutName}, prev |-> {VertexRetName}]})

\* C10 (as stated): after a successful lowering no stage source defines the
\* struct of the vertex return type, of the geometry output type or of the
\* fragment return type, except the source of the stage that owns the type.
C10_OnlyOwnerDefines ==
  (Lowered /\ setup.st = "Ok") =>
    \A stage \in StageSources :
      (StructsDefinedIn(stage.src) \cap StageLocalNames) \subseteq stage.owns

\* C10 (amended): after a successful lowering a stage source defines the struct
\* of the vertex return type, of the geometry output type or of the fragment
\* return type only if the stage owns the type or directly follows the stage
\* that owns it: the geometry and the fragment source also define the return
\* struct of the stage before them.
C10_OwnerOrNextDefines ==
  (Lowered /\ setup.st = "Ok") =>
    \A stage \in StageSources :
      (StructsDefinedIn(stage.src) \cap StageLocalNames) \subseteq (stage.owns \cup stage.prev)

C10_Witness ==
  /\ Lowered
  /\ setup.st = "Ok"
  /\ setup.val.gs # <<>>
  /\ Cardinality(StageLocalNames) = 3
  /\ "Light" \in StructsDefinedIn(setup.val.vs)
  /\ \A stage \in StageSources : stage.owns \subseteq StructsDefinedIn(stage.src)

-----------------------------------------------------------------------------
(* Statements about the stage sources *)

\* s is a prefix of t
IsPrefix(s, t) == Len(s) <= Len(t) /\ SubSeq(t, 1, Len(s)) = s

\* the struct definitions of the folded module, in source order
DeclaredStructs ==
  LET ds == SelectSeq(folded.glsl, LAMBDA d : d.kind = "init" /\ d.head.ty.def # <<>>)
  IN  [i \in 1..Len(ds) |-> ds[i].head.ty.def[1]]

\* the four groups of the common prelude, each in classifier order
PreludeStructs ==
  LET ss == SelectSeq(DeclaredStructs, LAMBDA s : s.name \notin StageLocalNames)
  IN  [i \in 1..Len(ss) |-> [k |-> "struct", s |-> ss[i]]]

PreludeUniforms ==
  LET us == ModuleUniforms(folded.glsl)
  IN  [i \in 1..Len(us) |-> [k |-> "decl", d |-> us[i]]]

PreludeBlocks ==
  LET bs == SelectSeq(folded.glsl, LAMBDA d : d.kind = "block")
  IN  [i \in 1..Len(bs) |-> [k |-> "block", b |-> bs[i]]]

PreludeFunctions ==
  LET ds == SelectSeq(folded.glsl, LAMBDA d : d.kind = "fn" /\ ~IsSpecialName(d.def.name))
  IN  [i \in 1..Len(ds) |-> [k |-> "fn", f |-> ds[i].def]]

Prelude == PreludeStructs \o PreludeUniforms \o PreludeBlocks \o PreludeFunctions

\* the items of a source text
ItemsOf(src) == {src[i] : i \in 1..Len(src)}

\* C11: on success the vertex source and the fragment source both start with the
\* same common prelude (the structs that are not stage-local, then all uniforms,
\* then all blocks, then all functions that are no pipeline function, each group
\* in classifier order); the geometry source is there exactly when
\* concat_map_prim is defined, and it is the geometry stage's text alone: it
\* starts with the stage's input layout and holds no item of the prelude.
C11_CommonPrelude ==
  (Lowered /\ setup.st = "Ok") =>
    /\ IsPrefix(Prelude, setup.val.vs)
    /\ IsPrefix(Prelude, setup.val.fs)
    /\ (setup.val.gs # <<>>) <=> HasFn("concat_map_prim")
    /\ setup.val.gs # <<>> =>
         /\ setup.val.gs[1][1].k = "global"
         /\ setup.val.gs[1][1].q[2] = Storage("in")
         /\ ItemsOf(setup.val.gs[1]) \cap ItemsOf(Prelude) = {}

C11_Witness ==
  /\ Lowered
  /\ setup.st = "Ok"
  /\ setup.val.gs # <<>>
  /\ folded.glsl[1].kind = "fn"
  /\ Len(PreludeStructs) = 1
  /\ Len(PreludeUniforms) = 3
  /\ Len(PreludeBlocks) = 2
  /\ Len(PreludeFunctions) = 2

\* the positions of src that hold a declaration whose qualifier has the storage q
DeclsWith(src, q) ==
  {i \in 1..Len(src) :
     /\ src[i].k = "decl"
     /\ \E j \in 1..Len(src[i].d.qualifier) : src[i].d.qualifier[j] = Storage(q)}

\* the parameters of the map_vertex that is lowered
MapVertexParams == FnsNamed("map_vertex")[1].parameters

NamedSlots == {i \in 1..Len(MapVertexParams) : MapVertexParams[i].named}

\* C12: the vertex source declares exactly one input per named parameter of
\* map_vertex, with layout(location = i) in followed by the parameter's own
\* qualifier, i the position of the parameter among all the parameters (unnamed
\* ones counted, so the locations are pairwise distinct); it declares no input
\* for an unnamed parameter, and exactly one out chdr_v_<field> per field of the
\* return struct other than chdr_Position.
C12_VertexInterface ==
  (Lowered /\ setup.st = "Ok") =>
    LET vs == setup.val.vs
        ins == DeclsWith(vs, "in")
        outs == DeclsWith(vs, "out")
        rest == Tail(FieldsOfStruct(VertexRetName))
    IN  /\ Cardinality(ins) = Cardinality(NamedSlots)
        /\ \A i \in NamedSlots :
             Cardinality({x \in ins :
                /\ vs[x].d.qualifier =
                     <<[q |-> "layout",
                        ids |-> <<[id |-> "location", val |-> <<[lit |-> TRUE, n |-> i - 1]>>]>>],
                       Storage("in")>> \o MapVertexParams[i].qualifier
                /\ vs[x].d.ty = MapVertexParams[i].ty
                /\ vs[x].d.name = MapVertexParams[i].name}) = 1
        /\ \A x, y \in ins : vs[x].d.qualifier[1] = vs[y].d.qualifier[1] => x = y
        /\ Cardinality(outs) = Len(rest)
        /\ \A j \in 1..Len(rest) :
             Cardinality({x \in outs :
                /\ vs[x].d.name = "chdr_v_" \o rest[j].identifiers[1].id
                /\ vs[x].d.ty = rest[j].ty}) = 1

C12_Witness ==
  /\ Lowered
  /\ setup.st = "Ok"
  /\ Len(MapVertexParams) = 3
  /\ Cardinality(NamedSlots) = 2
  /\ MapVertexParams[3].qualifier # <<>>
  /\ Len(FieldsOfStruct(VertexRetName)) = 3
  /\ Cardinality(DeclsWith(setup.val.vs, "out")) = 2

\* the generated main of a stage source
MainOf(src) == SelectSeq(src, LAMBDA it : it.k = "main")[1]

\* the arguments main passes to the stage function
CallArgs(src) == {MainOf(src).args[i] : i \in 1..Len(MainOf(src).args)}

\* the names of the named parameters of map_vertex, in order
NamedParamNames ==
  LET named == SelectSeq(MapVertexParams, LAMBDA a : a.named)
  IN  [i \in 1..Len(named) |-> named[i].name]

VertexLowererRuns == Lowered /\ HasFn("map_vertex") /\ HasFn("map_frag_data")

\* the return type of map_vertex names a struct the folded module declares
VertexRetDeclared ==
  /\ VertexRetName \notin Builtins
  /\ \E i \in 1..Len(DeclaredStructs) : DeclaredStructs[i].name = VertexRetName

\* f is `vec4 chdr_Position;`: no qualifier, one identifier, no array specifier
IsPositionField(f) ==
  /\ f.qualifier = <<>>
  /\ f.ty.ty = "vec4"
  /\ Len(f.identifiers) = 1
  /\ f.identifiers[1].id = "chdr_Position"
  /\ f.identifiers[1].arr.kind = "none"

\* C14: when map_vertex returns, without qualifier, a struct of the struct
\* table, the vertex lowering fails with WrongOutputFirstField exactly when the
\* struct's first field is not an unqualified vec4 with the single identifier
\* chdr_Position (vec3 chdr_Position fails); a qualified return type fails with
\* OutputHasMainQualifier, and a return type that is not in the struct table
\* fails with ReturnTypeMustBeAStruct.
C14_VertexOutputErrors ==
  VertexLowererRuns =>
    LET q == FnsNamed("map_vertex")[1].ty.qualifier
    IN  /\ q # <<>> => (setup.st = "Err" /\ setup.err = "OutputHasMainQualifier")
        /\ (q = <<>> /\ ~VertexRetDeclared) =>
             (setup.st = "Err" /\ setup.err = "ReturnTypeMustBeAStruct")
        /\ (q = <<>> /\ VertexRetDeclared) =>
             ((setup.st = "Err" /\ setup.err = "WrongOutputFirstField")
                <=> ~IsPositionField(FieldsOfStruct(VertexRetName)[1]))
        /\ (q = <<>> /\ VertexRetDeclared
              /\ FieldsOfStruct(VertexRetName)[1].ty.ty = "vec3"
              /\ FieldsOfStruct(VertexRetName)[1].identifiers[1].id = "chdr_Position") =>
             setup.err = "WrongOutputFirstField"

C14_Witness ==
  /\ VertexLowererRuns
  /\ FnsNamed("map_vertex")[1].ty.qualifier = <<>>
  /\ VertexRetDeclared
  /\ FieldsOfStruct(VertexRetName)[1].ty.ty = "vec3"
  /\ FieldsOfStruct(VertexRetName)[1].identifiers[1].id = "chdr_Position"
  /\ setup.st = "Err"
  /\ setup.err = "WrongOutputFirstField"

\* what the vertex lowerer returns for the folded module
VertexStage == SinkVertexShader(FnsNamed("map_vertex")[1], ModuleStructs(folded.glsl))

\* what the geometry lowerer returns for the folded module
GeometryStage ==
  SinkGeometryShader(FnsNamed("concat_map_prim")[1], ModuleStructs(folded.glsl),
                     DropFirstField(VertexStage.val.ret_ty), VertexStage.val.outputs)

\* the fragment lowerer is reached: the stages before it succeeded
FragmentLowererRuns ==
  /\ Lowered /\ HasFn("map_vertex") /\ HasFn("map_frag_data")
  /\ IsOk(VertexStage)
  /\ HasFn("concat_map_prim") => IsOk(GeometryStage)

\* the name of the return struct of the stage before the fragment stage
PrevStageName == IF HasFn("concat_map_prim") THEN GeometryOutName ELSE VertexRetName

MapFragDataParams == FnsNamed("map_frag_data")[1].parameters

\* map_frag_data has one parameter, and its type is a type name
FragmentTakesTypeName ==
  /\ Len(MapFragDataParams) = 1
  /\ MapFragDataParams[1].ty.ty \notin Builtins

\* C15: the fragment lowerer fails with UnknownInputType whenever the type name
\* of the parameter of map_frag_data differs from the name of the return struct
\* of the stage before it, which is the geometry stage's output struct when
\* concat_map_prim is defined and the vertex stage's return struct otherwise; a
\* map_frag_data taking the vertex struct is rejected when there is a geometry
\* stage with another output struct.
C15_UnknownInputType ==
  (FragmentLowererRuns /\ FragmentTakesTypeName) =>
    /\ MapFragDataParams[1].ty.ty # PrevStageName =>
         /\ setup.st = "Err"
         /\ setup.err = "UnknownInputType"
         /\ setup.info = <<MapFragDataParams[1].ty.ty>>
    /\ (HasFn("concat_map_prim") /\ GeometryOutName # VertexRetName
          /\ MapFragDataParams[1].ty.ty = VertexRetName) =>
         (setup.st = "Err" /\ setup.err = "UnknownInputType")

C15_Witness ==
  /\ FragmentLowererRuns
  /\ FragmentTakesTypeName
  /\ HasFn("concat_map_prim")
  /\ GeometryOutName # VertexRetName
  /\ MapFragDataParams[1].ty.ty = VertexRetName
  /\ setup.err = "UnknownInputType"

-----------------------------------------------------------------------------
(* Statements about the rewrite of concat_map_prim *)

Fixed == pc = "fixed"

\* the concat_map_prim handed to the rewrite, and its output struct
GivenPrim == folded.glsl[2].def

GivenOut == folded.glsl[1].head.ty.def[1]

IsCallTo(st, fn) == st.s = "call" /\ st.fn = fn

\* the top-level calls of yield_vertex that do not have one argument
BadYields ==
  {i \in 1..Len(GivenPrim.statement) :
     IsCallTo(GivenPrim.statement[i], "yield_vertex") /\ Len(GivenPrim.statement[i].args) # 1}

\* blk is the block yield_vertex(e) stands for: e bound to chdr_v, one assignment
\* chdr_g_<m> = chdr_v.<m> per member m of the output struct, in order, then
\* EmitVertex()
IsEmitBlock(blk, e) ==
  LET ms == FieldIds(GivenOut.fields)
  IN  /\ blk.s = "block"
      /\ Len(blk.body) = Len(ms) + 2
      /\ blk.body[1].s = "decl"
      /\ blk.body[1].args = <<GivenOut.name, "chdr_v", e>>
      /\ \A j \in 1..Len(ms) :
           /\ blk.body[j + 1].s = "assign"
           /\ blk.body[j + 1].args = <<"chdr_g_" \o ms[j], "chdr_v." \o ms[j]>>
      /\ blk.body[Len(ms) + 2] = [s |-> "call", fn |-> "EmitVertex", args |-> <<>>, body |-> <<>>]

\* C16: fix_concat_map_prim maps the top-level statements of concat_map_prim one
\* by one, keeping their number and order: a top-level yield_vertex(e) becomes a
\* block that binds e to chdr_v, assigns chdr_g_<field> = chdr_v.<field> once per
\* output field in field order and calls EmitVertex last; a top-level call of
\* yield_primitive becomes EndPrimitive(); every other statement, a block that
\* holds yield calls included, is left as it is; only the first parameter is
\* kept; and when a top-level yield_vertex has n # 1 arguments the whole rewrite
\* fails with WrongNumberOfArgs(1, n), n taken from the first such call.
C16_Rewrite ==
  Fixed =>
    LET body == GivenPrim.statement
    IN  IF BadYields # {}
        THEN LET first == CHOOSE i \in BadYields : \A j \in BadYields : i <= j
             IN  /\ setup.st = "Err"
                 /\ setup.err = "WrongNumberOfArgs"
                 /\ setup.info = <<1, Len(body[first].args)>>
        ELSE /\ setup.st = "Ok"
             /\ setup.val.name = GivenPrim.name
             /\ setup.val.ty = GivenPrim.ty
             /\ setup.val.parameters = <<GivenPrim.parameters[1]>>
             /\ Len(setup.val.statement) = Len(body)
             /\ \A i \in 1..Len(body) :
                  IF IsCallTo(body[i], "yield_vertex")
                  THEN IsEmitBlock(setup.val.statement[i], body[i].args[1])
                  ELSE IF IsCallTo(body[i], "yield_primitive")
                  THEN setup.val.statement[i] =
                         [s |-> "call", fn |-> "EndPrimitive", args |-> <<>>, body |-> <<>>]
                  ELSE setup.val.statement[i] = body[i]

C16_Witness ==
  /\ Fixed
  /\ setup.st = "Ok"
  /\ Len(GivenPrim.parameters) = 2
  /\ Len(FieldIds(GivenOut.fields)) = 3
  /\ Len(GivenPrim.statement) = 3
  /\ IsCallTo(GivenPrim.statement[1], "yield_vertex")
  /\ GivenPrim.statement[2].s = "block"
  /\ IsCallTo(GivenPrim.statement[2].body[1], "yield_vertex")
  /\ setup.val.statement[2] = GivenPrim.statement[2]
  /\ IsCallTo(GivenPrim.statement[3], "yield_primitive")

-----------------------------------------------------------------------------
(* Statements about the parameters of concat_map_prim *)

\* the array specifier of the input parameter of concat_map_prim
GivenInputArray == FnsNamed("concat_map_prim")[1].parameters[1].ty.arr

\* the qualifier of the output parameter of concat_map_prim
GivenOutQualifier == FnsNamed("concat_map_prim")[1].parameters[2].qualifier

\* the input layout of each accepted dimension
InputPrimOf(n) ==
  CASE n = 1 -> "points"
    [] n = 2 -> "lines"
    [] n = 3 -> "triangles"
    [] n = 4 -> "lines_adjacency"
    [] n = 6 -> "triangles_adjacency"

AcceptedDim == GivenInputArray.kind = "lit" /\ GivenInputArray.size \in {1, 2, 3, 4, 6}

\* C17: the dimension of the geometry input array is accepted only when it is the
\* integer literal 1, 2, 3, 4 or 6, and the input layout emitted is then points,
\* lines, triangles, lines_adjacency or triangles_adjacency respectively; any
\* other integer literal fails with WrongGeometryInputDim, and a missing or
\* non-literal dimension fails with WrongGeometryInput.
C17_InputDim ==
  Lowered =>
    /\ AcceptedDim =>
         /\ setup.err \notin {"WrongGeometryInputDim", "WrongGeometryInput"}
         /\ setup.st = "Ok" =>
              setup.val.gs[1][1] =
                [k |-> "global",
                 q |-> <<[q |-> "layout",
                          ids |-> <<[id |-> InputPrimOf(GivenInputArray.size), val |-> <<>>]>>],
                         [q |-> "in", ids |-> <<>>]>>]
    /\ (GivenInputArray.kind = "lit" /\ ~AcceptedDim) =>
         /\ setup.st = "Err"
         /\ setup.err = "WrongGeometryInputDim"
         /\ setup.info = <<GivenInputArray.size>>
    /\ GivenInputArray.kind # "lit" => (setup.st = "Err" /\ setup.err = "WrongGeometryInput")

C17_Witness ==
  /\ Lowered
  /\ setup.st = "Ok"
  /\ GivenInputArray = [kind |-> "lit", size |-> 6]
  /\ setup.val.gs[1][1].q[1].ids[1].id = "triangles_adjacency"

\* q is `layout(<prim>, max_vertices = <integer literal>) out` with <prim> one of
\* points, line_strip, triangle_strip and nothing else
IsOutputDescriptor(q) ==
  /\ Len(q) = 2
  /\ q[1].q = "layout"
  /\ q[2] = [q |-> "out", ids |-> <<>>]
  /\ Len(q[1].ids) = 2
  /\ q[1].ids[1].id \in {"points", "line_strip", "triangle_strip"}
  /\ q[1].ids[1].val = <<>>
  /\ q[1].ids[2].id = "max_vertices"
  /\ Len(q[1].ids[2].val) = 1
  /\ q[1].ids[2].val[1].lit

\* C18: the output descriptor of concat_map_prim is accepted only when its
\* qualifiers are exactly a layout followed by the storage qualifier out, and the
\* layout holds exactly two entries in this order: a primitive name without
\* value among points, line_strip, triangle_strip, then max_vertices with an
\* integer literal; a missing qualifier, another primitive, another order, a
\* missing or an extra entry fails with WrongGeometryOutputLayout; on success the
\* same layout is emitted unchanged as the `out` global declaration.
C18_OutputLayout ==
  (Lowered /\ AcceptedDim) =>
    /\ setup.st = "Ok" <=> IsOutputDescriptor(GivenOutQualifier)
    /\ ~IsOutputDescriptor(GivenOutQualifier) =>
         (setup.st = "Err" /\ setup.err = "WrongGeometryOutputLayout")
    /\ setup.st = "Ok" =>
         setup.val.gs[1][2] =
           [k |-> "global", q |-> <<GivenOutQualifier[1], [q |-> "out", ids |-> <<>>]>>]

C18_Witness ==
  /\ Lowered
  /\ AcceptedDim
  /\ setup.st = "Ok"
  /\ GivenOutQualifier[1].ids[1].id = "line_strip"
  /\ setup.val.gs[1][2].q[1].ids = GivenOutQualifier[1].ids

-----------------------------------------------------------------------------
(* Termination of the resolver *)

\* C19: for every module store, those whose import graph has cycles or missing
\* modules included, a call of gather terminates, with Ok or with a DepsError
\* (Cycle or LoadError); the recursion never gets deeper than the number of
\* module keys.
C19_Terminates ==
  /\ [](Len(stack) <= Cardinality(Keys))
  /\ <>(Done /\ result.status \in {"Ok", "Cycle", "LoadError"})

C19_Witness ==
  /\ Done
  /\ HasCycle
  /\ \E k \in Reachable : ~store[k].loaded
  /\ result.status = "LoadError"
  /\ Len(stack) = 3

-----------------------------------------------------------------------------
(* Statements about the classifier *)

Classified == pc = "classified"

\* d is an InitDeclList whose qualifiers hold the storage qualifier uniform
IsUniformList(d) ==
  /\ d.kind = "init"
  /\ \E j \in 1..Len(d.head.qualifier) : d.head.qualifier[j].q = "uniform"

\* the number of uniforms the declaration d stands for
UniformCount(d) == IF IsUniformList(d) THEN 1 + Len(d.tail) ELSE 0

\* the number of uniforms the declarations before the p-th stand for
RECURSIVE UniformsBefore(_)
UniformsBefore(p) ==
  IF p = 1 THEN 0 ELSE UniformsBefore(p - 1) + UniformCount(folded.glsl[p - 1])

\* C20: the uniforms list of the classifier is, in the source order of the folded
\* module, the flattening of every InitDeclList whose qualifiers hold the
\* storage qualifier uniform into its head declaration followed by one entry
\* per tail declarator, with the head's type and qualifiers and the declarator's
\* own name and array specifier; a declaration without the uniform qualifier
\* contributes nothing.
C20_Uniforms ==
  Classified =>
    LET us == setup.val.uniforms
        glsl == folded.glsl
    IN  /\ Len(us) = UniformsBefore(Len(glsl) + 1)
        /\ \A p \in 1..Len(glsl) :
             IsUniformList(glsl[p]) =>
               /\ us[UniformsBefore(p) + 1] = glsl[p].head
               /\ \A j \in 1..Len(glsl[p].tail) :
                    us[UniformsBefore(p) + 1 + j] =
                      [qualifier |-> glsl[p].head.qualifier,
                       ty |-> glsl[p].head.ty,
                       name |-> glsl[p].tail[j].name,
                       arr |-> glsl[p].tail[j].arr]

C20_Witness ==
  /\ Classified
  /\ Len(folded.glsl) = 3
  /\ IsUniformList(folded.glsl[1]) /\ Len(folded.glsl[1].tail) = 2
  /\ ~IsUniformList(folded.glsl[2]) /\ folded.glsl[2].kind = "init" /\ Len(folded.glsl[2].tail) = 1
  /\ IsUniformList(folded.glsl[3]) /\ folded.glsl[3].head.arr # folded.glsl[3].tail[1].arr
  /\ Len(setup.val.uniforms) = 5

-----------------------------------------------------------------------------
(* The ancestors stack of the resolver *)

\* the keys of the modules whose deps_no_cycle call is running, outermost first
CallPath == [i \in 1..Len(stack) |-> stack[i].key]

\* every running call but the outermost was made for the import its caller is at
IsImportPath ==
  \A i \in 1..(Len(stack) - 1) :
    /\ stack[i].i <= Len(store[stack[i].key].imports)
    /\ stack[i + 1].key = store[stack[i].key].imports[stack[i].i]

\* C21: each time an import of a module is tested against the ancestors stack,
\* the stack is exactly the sequence of the module keys on the current
\* depth-first path from the root to the module being processed, the root at the
\* bottom and no key twice; a child's entry is popped by its caller after the
\* child returned, and a skipped (already seen) import pushes and pops nothing.
C21_AncestorsArePath ==
  AtImport =>
    /\ parents = CallPath
    /\ parents[1] = root
    /\ parents[Len(parents)] = Top.key
    /\ IsImportPath
    /\ NoRepeats(parents)

C21_Witness ==
  /\ AtImport
  /\ Len(stack) = 2
  /\ Top.i = 3
  /\ store[Top.key].imports[1] = store[Top.key].imports[2]
  /\ InDeps(store[Top.key].imports[1])
  /\ parents = <<root, Top.key>>

-----------------------------------------------------------------------------
(* Gathering and lowering modules that define pipeline functions several times *)

\* the body that tells the definitions of module k from those of other modules
BodyOf(k) == <<CallStmt("compute", <<k>>)>>

\* what module k declares: the structs (in the root only), a helper function, and
\* the pipeline functions it is chosen to define; map_frag_data takes tin
DupGlsl(k, has_mv, has_cmp, has_mfd, tin) ==
  (IF k = KeyOrder[1]
   THEN <<StructDecl(VertexStruct(1, 1)), StructDecl(GStruct), StructDecl(FStruct(1))>>
   ELSE <<>>)
  \o <<FnDecl(FunctionDef(<<>>, TypeSpec("float", NoArray), "helper_" \o k, <<>>, BodyOf(k)))>>
  \o (IF has_mv
      THEN <<FnDecl(FunctionDef(<<>>, TypeSpec("Vertex", NoArray), "map_vertex",
                                VertexParams[2], BodyOf(k)))>>
      ELSE <<>>)
  \o (IF has_cmp
      THEN <<FnDecl(ConcatMapPrim("Vertex", Sized(3), GsOutQualifier("points"), "G", BodyOf(k)))>>
      ELSE <<>>)
  \o (IF has_mfd
      THEN <<FnDecl(FunctionDef(<<>>, TypeSpec("F", NoArray), "map_frag_data",
                                <<NamedParam(<<>>, TypeSpec(tin, NoArray), "v")>>, BodyOf(k)))>>
      ELSE <<>>)

\* the modules key k can stand for, importing imps
DupModules(k, imps, tin) ==
  {[loaded |-> TRUE, imports |-> imps, glsl |-> DupGlsl(k, has_mv, has_cmp, has_mfd, tin)]
     : has_mv \in BOOLEAN, has_cmp \in BOOLEAN, has_mfd \in BOOLEAN}

\* the import lists of the root: one or two dependencies in either order, one
\* dependency twice, itself, a module that cannot be loaded, or nothing
RootImports ==
  {<<"b">>, <<"b", "c">>, <<"c", "b">>, <<"b", "b">>, <<"a">>, <<"d">>, <<>>}

InitGatherLower ==
  /\ \E tin \in {"Vertex", "G"}, ia \in RootImports, ib \in {<<>>, <<"c">>} :
       \E ma \in DupModules("a", ia, tin), mb \in DupModules("b", ib, tin),
          mc \in DupModules("c", <<>>, tin) :
         store = StoreOf(ma, mb, mc, NotLoadable)
  /\ root = KeyOrder[1]
  /\ pc = "idle"
  /\ stack = <<>>
  /\ parents = <<>>
  /\ deps = <<>>
  /\ result = NoResult
  /\ folded = NoFold
  /\ setup = NoSetup

\* the module gather returned is lowered: module.to_glsl_setup()
LowerGathered ==
  /\ pc = "done"
  /\ result.status = "Ok"
  /\ folded' = result.module[1]
  /\ setup' = ToGlslSetup(result.module[1].glsl)
  /\ pc' = "lowered"
  /\ UNCHANGED <<store, root, stack, parents, deps, result>>

NextGatherLower ==
  \/ GatherCall
  \/ ImportSeen
  \/ ImportCycle
  \/ ImportLoadError
  \/ ImportDescend
  \/ ChildReturn
  \/ GatherReturn
  \/ LowerGathered

SpecGatherLower == InitGatherLower /\ [][NextGatherLower]_vars

\* the functions named n a stage source holds
FnItems(src, n) ==
  LET its == SelectSeq(src, LAMBDA it : it.k = "fn")
  IN  SelectSeq([i \in 1..Len(its) |-> its[i].f], LAMBDA f : f.name = n)

\* module k defines a function named n
Defines(k, n) ==
  \E i \in 1..Len(store[k].glsl) : store[k].glsl[i].kind = "fn" /\ store[k].glsl[i].def.name = n

\* the modules of the fold, dependencies first and the root last
FoldOrder == result.deps \o <<root>>

\* the first module of the fold that defines n
FirstDefiner(n) ==
  FoldOrder[CHOOSE p \in 1..Len(FoldOrder) :
              /\ Defines(FoldOrder[p], n)
              /\ \A q \in 1..(p - 1) : ~Defines(FoldOrder[q], n)]

\* the source of the stage the pipeline function n is lowered into
StageSourceOf(n) ==
  CASE n = "map_vertex" -> setup.val.vs
    [] n = "concat_map_prim" -> setup.val.gs[1]
    [] n = "map_frag_data" -> setup.val.fs

PipelineNames == {"map_vertex", "concat_map_prim", "map_frag_data"}

\* C22: when the folded module holds several functions named map_vertex,
\* concat_map_prim or map_frag_data, the one that is lowered is the first in fold
\* order, so the definition of a dependency wins over the root's, and every
\* function carrying one of the three names is kept out of the common prelude:
\* a stage source holds the lowered definition of its own pipeline function
\* once and no other function with one of the three names.
C22_FirstDefinitionWins ==
  (Lowered /\ setup.st = "Ok") =>
    /\ \A n \in PipelineNames :
         HasFn(n) =>
           /\ Len(FnItems(StageSourceOf(n), n)) = 1
           /\ FnItems(StageSourceOf(n), n)[1].statement = FnsNamed(n)[1].statement
           /\ FnItems(StageSourceOf(n), n)[1].statement =
                <<[s |-> "call", fn |-> "compute", args |-> <<FirstDefiner(n)>>, body |-> <<>>]>>
           /\ \A m \in PipelineNames \ {n} : FnItems(StageSourceOf(n), m) = <<>>
    /\ \A k \in {FoldOrder[p] : p \in 1..Len(FoldOrder)} :
         /\ Len(FnItems(setup.val.vs, "helper_" \o k)) = 1
         /\ Len(FnItems(setup.val.fs, "helper_" \o k)) = 1

C22_Witness ==
  /\ Lowered
  /\ setup.st = "Ok"
  /\ Len(result.deps) = 2
  /\ \A n \in PipelineNames : Len(FnsNamed(n)) >= 2 /\ Defines(root, n)
  /\ FirstDefiner("map_vertex") = result.deps[1]
  /\ FirstDefiner("map_frag_data") = result.deps[2]
  /\ FnItems(setup.val.vs, "map_vertex")[1].statement # BodyOf(root)

====
